---- MODULE Spec2Model ----
(***************************************************************************)
(* A model of the backtesting core of the trading bot:                     *)
(*   src/backtester.py  Backtester (position state machine and metrics)    *)
(*   src/indicators.py  TechnicalIndicators (KDJ, RSI, Bollinger, S/R)     *)
(*   src/utils.py       calculate_trade_metrics                            *)
(*                                                                         *)
(* Floats are modelled exactly: a float is NaN, +/-inf or a rational n/d   *)
(* in lowest terms.  Comparisons with NaN are false and arithmetic on NaN  *)
(* gives NaN, as in IEEE-754 / pandas.  Rounding error is not modelled.    *)
(***************************************************************************)
EXTENDS Integers, Sequences, FiniteSets, TLC

VARIABLES
    df,              \* Backtester.df: the price bars [high, low, close]
    snaps,           \* per bar, the values lines 68-70 of run_backtest returned
    config,          \* strategy_config passed to run_backtest
    balance,         \* Backtester.balance
    positions,       \* Backtester.positions
    trades_history,  \* Backtester.trades_history
    i,               \* loop index of run_backtest
    status,          \* "running" | "returned" | "raised" (and "input" | "called")
    result,          \* what the last finished call returned or raised
    consulted,       \* the signal checks the last loop iteration evaluated, in order
    run,             \* 1 for the first backtest of an input, 2 for the re-run
    first            \* ledger and report of the first backtest

vars == <<df, snaps, config, balance, positions, trades_history, i, status,
          result, consulted, run, first>>

(***************************************************************************)
(* Floats                                                                  *)
(***************************************************************************)
Abs(x) == IF x < 0 THEN -x ELSE x

RECURSIVE GCD(_, _)
GCD(a, b) == IF b = 0 THEN a ELSE GCD(b, a % b)

NaN == [t |-> "nan", n |-> 0, d |-> 0]

Inf(s) == [t |-> "inf", n |-> s, d |-> 0]

\* the rational n/d (d # 0) in lowest terms with a positive denominator
Rat(n, d) ==
    LET g == GCD(Abs(n), Abs(d))
        s == IF d < 0 THEN -1 ELSE 1
    IN  [t |-> "num", n |-> (s * n) \div g, d |-> (s * d) \div g]

Int2F(n) == Rat(n, 1)

Sign(x) == IF x.n > 0 THEN 1 ELSE IF x.n < 0 THEN -1 ELSE 0

FNeg(a) ==
    IF a.t = "nan" THEN NaN
    ELSE IF a.t = "inf" THEN Inf(-a.n)
    ELSE Rat(-a.n, a.d)

\* the sum over the least common denominator, to keep the products small
FAdd(a, b) ==
    IF a.t = "nan" \/ b.t = "nan" THEN NaN
    ELSE IF a.t = "inf" /\ b.t = "inf" THEN (IF a.n = b.n THEN a ELSE NaN)
    ELSE IF a.t = "inf" THEN a
    ELSE IF b.t = "inf" THEN b
    ELSE Rat(a.n * (b.d \div GCD(a.d, b.d)) + b.n * (a.d \div GCD(a.d, b.d)),
             (a.d \div GCD(a.d, b.d)) * b.d)

FSub(a, b) == FAdd(a, FNeg(b))

\* common factors are cancelled before multiplying
FMul(a, b) ==
    IF a.t = "nan" \/ b.t = "nan" THEN NaN
    ELSE IF a.t = "inf" \/ b.t = "inf"
         THEN (IF Sign(a) * Sign(b) = 0 THEN NaN ELSE Inf(Sign(a) * Sign(b)))
    ELSE Rat((a.n \div GCD(Abs(a.n), b.d)) * (b.n \div GCD(Abs(b.n), a.d)),
             (a.d \div GCD(Abs(b.n), a.d)) * (b.d \div GCD(Abs(a.n), b.d)))

\* numpy/pandas float division: x/0 is +/-inf, 0/0 is NaN, nothing is raised
FDiv(a, b) ==
    IF a.t = "nan" \/ b.t = "nan" THEN NaN
    ELSE IF a.t = "inf" /\ b.t = "inf" THEN NaN
    ELSE IF a.t = "inf" THEN Inf(IF Sign(b) < 0 THEN -a.n ELSE a.n)
    ELSE IF b.t = "inf" THEN Rat(0, 1)
    ELSE IF b.n = 0 THEN (IF a.n = 0 THEN NaN ELSE Inf(Sign(a)))
    ELSE Rat(a.n * b.d, a.d * b.n)

\* the integer square root of n >= 0, searched between lo and hi
RECURSIVE ISqrt(_, _, _)
ISqrt(n, lo, hi) ==
    IF lo >= hi THEN lo
    ELSE LET mid == (lo + hi + 1) \div 2
         IN  IF mid * mid <= n THEN ISqrt(n, mid, hi) ELSE ISqrt(n, lo, mid - 1)

\* the largest root whose square is a TLC integer
Root(n) == ISqrt(n, 0, IF n < 46340 THEN n ELSE 46340)

IsSquare(n) == n >= 0 /\ Root(n) * Root(n) = n

\* sqrt(v) for a rational v >= 0 whose root is rational
RatSqrt(v) == Rat(Root(v.n), Root(v.d))

\* (a + m*sqrt(v)) / (c + e*sqrt(v)) for rationals a, m, c, e, v with v >= 0 and
\* a positive denominator: a rational when sqrt(v) is one, else kept in this form
Surd(a, m, c, e, v) ==
    IF \E x \in {a, m, c, e, v} : x.t # "num" THEN NaN
    ELSE IF IsSquare(v.n) /\ IsSquare(v.d)
         THEN FDiv(FAdd(a, FMul(m, RatSqrt(v))), FAdd(c, FMul(e, RatSqrt(v))))
    ELSE [t |-> "surd", a |-> a, m |-> m, c |-> c, e |-> e, v |-> v]

RatLt(a, b) == a.n * (b.d \div GCD(a.d, b.d)) < b.n * (a.d \div GCD(a.d, b.d))

RatSq(a) == FMul(a, a)

Zero == Rat(0, 1)

\* A*sqrt(v) < B for rationals A, B and v > 0
RootLt(A, v, B) ==
    IF A.n = 0 THEN RatLt(Zero, B)
    ELSE IF A.n > 0 THEN RatLt(Zero, B) /\ RatLt(FMul(RatSq(A), v), RatSq(B))
    ELSE B.n >= 0 \/ RatLt(RatSq(B), FMul(RatSq(A), v))

\* x < p and x > p for a surd x and a rational p
SurdLt(x, p) == RootLt(FSub(x.m, FMul(p, x.e)), x.v, FSub(FMul(p, x.c), x.a))

SurdGt(x, p) == RootLt(FSub(FMul(p, x.e), x.m), x.v, FSub(x.a, FMul(p, x.c)))

FLt(a, b) ==
    CASE a.t = "nan" \/ b.t = "nan" -> FALSE
      [] a.t = "surd" /\ b.t = "num" -> SurdLt(a, b)
      [] a.t = "num" /\ b.t = "surd" -> SurdGt(b, a)
      [] a.t = "surd" /\ b.t = "inf" -> b.n > 0
      [] a.t = "inf" /\ b.t = "surd" -> a.n < 0
      [] a.t = "inf" /\ b.t = "inf" -> a.n < b.n
      [] a.t = "inf" /\ b.t = "num" -> a.n < 0
      [] a.t = "num" /\ b.t = "inf" -> b.n > 0
      [] a.t = "num" /\ b.t = "num" -> RatLt(a, b)

FGt(a, b) == FLt(b, a)

FAbsRatio(a, b) == IF FLt(FDiv(a, b), Rat(0, 1)) THEN FNeg(FDiv(a, b)) ELSE FDiv(a, b)

FLe(a, b) == a.t # "nan" /\ b.t # "nan" /\ ~FLt(b, a)

FGe(a, b) == FLe(b, a)

FMax(a, b) == IF FGt(b, a) THEN b ELSE a

RECURSIVE SeqsOfLen(_, _)
SeqsOfLen(S, n) ==
    IF n = 0 THEN {<<>>}
    ELSE {Append(s, x) : s \in SeqsOfLen(S, n - 1), x \in S}

SeqsUpTo(S, n) == UNION {SeqsOfLen(S, k) : k \in 0..n}

Last(s) == s[Len(s)]

(***************************************************************************)
(* Strategy configuration (src/config.py) and the SignalEvaluator          *)
(***************************************************************************)
\* Config.MIN_TREND_STRENGTH, Config.STOP_LOSS, Config.PROFIT_TARGET
DefaultConfig ==
    [min_trend_strength |-> Rat(5, 10), stop_loss |-> Rat(2, 100),
     profit_target |-> Rat(3, 100)]

\* a second strategy_config, with a wider stop and a nearer target
WideStopConfig ==
    [min_trend_strength |-> Rat(5, 10), stop_loss |-> Rat(5, 100),
     profit_target |-> Rat(1, 100)]

Configs == {DefaultConfig, WideStopConfig}

RsiOversold == 30

RsiOverbought == 70

\* a long rule that has lost its "price < lower_bb" conjunct
long_entry_no_band(k, d, rsi, price, ma, upper_bb, lower_bb, trend_strength, cfg) ==
    /\ FGt(k, d)
    /\ FLt(rsi, Int2F(RsiOversold))
    /\ FGt(price, ma)
    /\ FGt(trend_strength, cfg.min_trend_strength)

\* the long rule with its tests written as negated opposites: the same on
\* numbers, true where an argument is NaN
long_entry_negated_tests(k, d, rsi, price, ma, upper_bb, lower_bb, trend_strength, cfg) ==
    /\ FGt(k, d)
    /\ ~FGe(rsi, Int2F(RsiOversold))
    /\ ~FLe(price, ma)
    /\ ~FLe(trend_strength, cfg.min_trend_strength)
    /\ ~FGe(price, lower_bb)

\* lines 91-95: the five conjuncts of the long rule
long_entry(k, d, rsi, price, ma, upper_bb, lower_bb, trend_strength, cfg) ==
    /\ FGt(k, d)
    /\ FLt(rsi, Int2F(RsiOversold))
    /\ FGt(price, ma)
    /\ FGt(trend_strength, cfg.min_trend_strength)
    /\ FLt(price, lower_bb)

\* lines 99-103: the five conjuncts of the short rule
short_entry(k, d, rsi, price, ma, upper_bb, lower_bb, trend_strength, cfg) ==
    /\ FLt(k, d)
    /\ FGt(rsi, Int2F(RsiOverbought))
    /\ FLt(price, ma)
    /\ FGt(trend_strength, cfg.min_trend_strength)
    /\ FGt(price, upper_bb)

check_entry_signal(k, d, rsi, price, ma, upper_bb, lower_bb, trend_strength, cfg) ==
    IF long_entry(k, d, rsi, price, ma, upper_bb, lower_bb, trend_strength, cfg)
    THEN TRUE
    ELSE IF short_entry(k, d, rsi, price, ma, upper_bb, lower_bb, trend_strength, cfg)
    THEN TRUE
    ELSE FALSE

One == Int2F(1)

\* a stop-loss test whose long and short thresholds are swapped
stop_loss_hit_swapped(position, current_price, cfg) ==
    IF position.side = "long"
    THEN FGe(current_price, FMul(position.entry_price, FAdd(One, cfg.stop_loss)))
    ELSE FLe(current_price, FMul(position.entry_price, FSub(One, cfg.stop_loss)))

\* lines 114-119: the stop-loss test
stop_loss_hit(position, current_price, cfg) ==
    IF position.side = "long"
    THEN FLe(current_price, FMul(position.entry_price, FSub(One, cfg.stop_loss)))
    ELSE FGe(current_price, FMul(position.entry_price, FAdd(One, cfg.stop_loss)))

\* lines 122-127: the take-profit test
take_profit_hit(position, current_price, cfg) ==
    IF position.side = "long"
    THEN FGe(current_price, FMul(position.entry_price, FAdd(One, cfg.profit_target)))
    ELSE FLe(current_price, FMul(position.entry_price, FSub(One, cfg.profit_target)))

\* current_price is current_data['close'].iloc[-1] (line 110)
check_exit_signal(position, current_price, cfg) ==
    IF stop_loss_hit(position, current_price, cfg) THEN TRUE
    ELSE IF take_profit_hit(position, current_price, cfg) THEN TRUE
    ELSE FALSE

\* the tests check_exit_signal evaluates, in the order it evaluates them
exit_tests(position, current_price, cfg) ==
    IF stop_loss_hit(position, current_price, cfg) THEN <<"stop_loss">>
    ELSE <<"stop_loss", "take_profit">>

(***************************************************************************)
(* MetricsCalculator: Backtester.calculate_metrics and its helpers         *)
(***************************************************************************)
Return(v) == [kind |-> "returned", value |-> v]

Raise(e) == [kind |-> "raised", value |-> e]

NoResult == [kind |-> "none", value |-> <<>>]

\* the empty dict {}
EmptyReport == [key \in {} |-> 0]

RECURSIVE FSum(_)
FSum(s) == IF s = <<>> THEN Int2F(0) ELSE FAdd(s[1], FSum(Tail(s)))

\* np.mean of a non-empty list
Mean(s) == FDiv(FSum(s), Int2F(Len(s)))

\* [p for p in profits if p > 0] and [p for p in profits if p < 0]
winning_trades(profits) == SelectSeq(profits, LAMBDA x : FGt(x, Int2F(0)))

losing_trades(profits) == SelectSeq(profits, LAMBDA x : FLt(x, Int2F(0)))

\* a drawdown loop that never raises its peak
RECURSIVE drawdown_loop_fixed_peak(_, _, _, _)
drawdown_loop_fixed_peak(balance_history, j, peak, max_drawdown) ==
    IF j > Len(balance_history) THEN max_drawdown
    ELSE drawdown_loop_fixed_peak(balance_history, j + 1, peak,
             FMax(max_drawdown, FDiv(FSub(peak, balance_history[j]), peak)))

\* lines 43-47 of backtester.py: the loop over balance_history, from its j-th element on
RECURSIVE drawdown_loop(_, _, _, _)
drawdown_loop(balance_history, j, peak, max_drawdown) ==
    IF j > Len(balance_history) THEN max_drawdown
    ELSE LET bal == balance_history[j]
             pk == IF FGt(bal, peak) THEN bal ELSE peak
             drawdown == FDiv(FSub(pk, bal), pk)
         IN  drawdown_loop(balance_history, j + 1, pk, FMax(max_drawdown, drawdown))

\* balance_history[0] raises IndexError on an empty ledger (line 40 of backtester.py)
calculate_max_drawdown(th) ==
    LET balance_history == [j \in 1..Len(th) |-> th[j].balance_after]
    IN  IF balance_history = <<>> THEN Raise("IndexError")
        ELSE Return(drawdown_loop(balance_history, 1, balance_history[1], Int2F(0)))

\* mean(returns) / (std(returns) + 1e-10) * sqrt(252) is irrational in general:
\* it is kept as the expression over the per-trade returns it is computed from
calculate_sharpe_ratio(th) ==
    IF th = <<>> THEN Return(Int2F(0))
    ELSE Return([t |-> "sharpe",
                 returns |-> [j \in 1..Len(th) |->
                                FDiv(th[j].profit, th[j].balance_before)]])

calculate_metrics(th, bal) ==
    IF th = <<>> THEN Return(EmptyReport)
    ELSE LET profits == [j \in 1..Len(th) |-> th[j].profit]
             dd == calculate_max_drawdown(th)
             sr == calculate_sharpe_ratio(th)
         IN  IF dd.kind = "raised" THEN dd
             ELSE Return(
                 [total_trades |-> Len(th),
                  winning_trades |-> Len(winning_trades(profits)),
                  losing_trades |-> Len(losing_trades(profits)),
                  win_rate |-> Rat(Len(winning_trades(profits)), Len(th)),
                  average_profit |-> Mean(profits),
                  max_drawdown |-> dd.value,
                  sharpe_ratio |-> sr.value,
                  final_balance |-> bal])

\* the index of a least element of a non-empty sequence of rationals
MinIndex(s) == CHOOSE j \in 1..Len(s) : \A q \in 1..Len(s) : FLe(s[j], s[q])

Without(s, j) == SubSeq(s, 1, j - 1) \o SubSeq(s, j + 1, Len(s))

RECURSIVE Sorted(_)
Sorted(s) ==
    IF s = <<>> THEN <<>>
    ELSE <<s[MinIndex(s)]>> \o Sorted(Without(s, MinIndex(s)))

\* np.median of a sorted non-empty list
MedianOfSorted(s) ==
    IF Len(s) % 2 = 1 THEN s[(Len(s) + 1) \div 2]
    ELSE FDiv(FAdd(s[Len(s) \div 2], s[Len(s) \div 2 + 1]), Int2F(2))

\* the population variance of a non-empty list: np.std is its root
PopVar(s) ==
    FDiv(FSum([j \in 1..Len(s) |-> FMul(FSub(s[j], Mean(s)), FSub(s[j], Mean(s)))]),
         Int2F(Len(s)))

\* utils.py lines 43-44: abs(sum of wins / sum of losses), inf when the losses sum to 0
ProfitFactor(wins, losses) ==
    IF FSum(losses) # Int2F(0) THEN FAbsRatio(FSum(wins), FSum(losses)) ELSE Inf(1)

\* src/utils.py: times are bar indices here, so average_duration is in bars
TradeMetrics(trades, profits) ==
    [total_trades |-> Len(trades),
     winning_trades |-> Len(winning_trades(profits)),
     losing_trades |-> Len(losing_trades(profits)),
     win_rate |-> Rat(Len(winning_trades(profits)), Len(trades)),
     average_profit |-> Mean(profits),
     median_profit |-> MedianOfSorted(Sorted(profits)),
     largest_win |-> Last(Sorted(profits)),
     largest_loss |-> Sorted(profits)[1],
     average_duration |->
         Mean([j \in 1..Len(trades) |-> Int2F(trades[j].exit_time - trades[j].entry_time)]),
     profit_factor |->
         ProfitFactor(winning_trades(profits),
                      losing_trades(profits)),
     expectancy |->
         IF Len(profits) > 1
         THEN Surd(Mean(profits), Int2F(0), Int2F(0), Int2F(1), PopVar(profits))
         ELSE Int2F(0)]

calculate_trade_metrics(trades) ==
    IF trades = <<>> THEN Return(EmptyReport)
    ELSE Return(TradeMetrics(trades, [j \in 1..Len(trades) |-> trades[j].profit]))

(***************************************************************************)
(* BacktestEngine: Backtester.__init__ and the loop body of run_backtest   *)
(***************************************************************************)
InitialBalance == 10000

PositionSize == 1

\* a constructor that keeps the ledger of the object built before it
Backtester_init_shared_ledger(prev, initial_balance) ==
    [balance |-> Int2F(initial_balance), positions |-> <<>>,
     trades_history |-> prev.trades_history]

\* __init__ binds a fresh balance and fresh lists; prev, the state of a Backtester
\* built earlier, is not read
Backtester_init(prev, initial_balance) ==
    [balance |-> Int2F(initial_balance), positions |-> <<>>, trades_history |-> <<>>]

NoBacktester == [balance |-> Int2F(0), positions |-> <<>>, trades_history |-> <<>>]

\* Flat -> InPosition: a Position at the current bar's close, on the side whose
\* rule fired
open_position(b, t) ==
    /\ positions' = Append(positions,
         [side |-> IF long_entry(b.k, b.d, b.rsi, b.price, b.ma, b.upper_bb,
                                 b.lower_bb, b.trend_strength, config)
                   THEN "long" ELSE "short",
          entry_price |-> b.price, entry_time |-> t, size |-> Int2F(PositionSize)])
    /\ UNCHANGED <<trades_history, balance>>

\* InPosition -> Flat: the Trade is appended (profit = direction-adjusted price
\* delta x size) and the balance becomes its balance_after
close_position(b, t) ==
    LET p == Last(positions)
        delta == IF p.side = "long" THEN FSub(b.price, p.entry_price)
                 ELSE FSub(p.entry_price, b.price)
        profit == FMul(delta, p.size)
    IN  /\ positions' = SubSeq(positions, 1, Len(positions) - 1)
        /\ trades_history' = Append(trades_history,
             [entry_price |-> p.entry_price, entry_time |-> p.entry_time,
              exit_price |-> b.price, exit_time |-> t, side |-> p.side,
              profit |-> profit, balance_before |-> balance,
              balance_after |-> FAdd(balance, profit)])
        /\ balance' = FAdd(balance, profit)

\* a loop body that checks the entry signal on every bar, open position or not
Dispatch_entry_on_every_bar(b, t) ==
    /\ consulted' = <<"entry">>
    /\ IF check_entry_signal(b.k, b.d, b.rsi, b.price, b.ma, b.upper_bb,
                             b.lower_bb, b.trend_strength, config)
       THEN open_position(b, t)
       ELSE UNCHANGED <<positions, trades_history, balance>>

\* a loop body that books the cost of the position on the balance when it opens
Dispatch_charge_on_open(b, t) ==
    IF positions = <<>>
    THEN /\ consulted' = <<"entry">>
         /\ IF check_entry_signal(b.k, b.d, b.rsi, b.price, b.ma, b.upper_bb,
                                  b.lower_bb, b.trend_strength, config)
            THEN /\ positions' = Append(positions,
                      [side |-> IF FGt(b.k, b.d) THEN "long" ELSE "short",
                       entry_price |-> b.price, entry_time |-> t,
                       size |-> Int2F(PositionSize)])
                 /\ balance' = FSub(balance, b.price)
                 /\ UNCHANGED trades_history
            ELSE UNCHANGED <<positions, trades_history, balance>>
    ELSE /\ consulted' = <<"exit">> \o exit_tests(Last(positions), b.price, config)
         /\ IF check_exit_signal(Last(positions), b.price, config)
            THEN close_position(b, t)
            ELSE UNCHANGED <<positions, trades_history, balance>>

\* lines 73-82, for the bar at index t whose indicator values are b
Dispatch(b, t) ==
    IF positions = <<>>
    THEN /\ consulted' = <<"entry">>
         /\ IF check_entry_signal(b.k, b.d, b.rsi, b.price, b.ma, b.upper_bb,
                                  b.lower_bb, b.trend_strength, config)
            THEN open_position(b, t)
            ELSE UNCHANGED <<positions, trades_history, balance>>
    ELSE /\ consulted' = <<"exit">> \o exit_tests(Last(positions), b.price, config)
         /\ IF check_exit_signal(Last(positions), b.price, config)
            THEN close_position(b, t)
            ELSE UNCHANGED <<positions, trades_history, balance>>

Snap(k, d, rsi, price, ma, upper_bb, lower_bb, trend_strength) ==
    [k |-> k, d |-> d, rsi |-> rsi, price |-> price, ma |-> ma,
     upper_bb |-> upper_bb, lower_bb |-> lower_bb, trend_strength |-> trend_strength]

\* Scenario C of the spec: K>D, RSI=25, price=95, MA=100, lowerBB=96, trend 0.8
ScenarioC ==
    Snap(Int2F(60), Int2F(40), Int2F(25), Int2F(95), Int2F(100), Int2F(104),
         Int2F(96), Rat(8, 10))

\* all five long conjuncts hold (price 100 above MA 99, below lowerBB 101)
LongBar ==
    Snap(Int2F(60), Int2F(40), Int2F(25), Int2F(100), Int2F(99), Int2F(103),
         Int2F(101), Rat(8, 10))

\* all five short conjuncts hold (price 100 below MA 101, above upperBB 99)
ShortBar ==
    Snap(Int2F(40), Int2F(60), Int2F(75), Int2F(100), Int2F(101), Int2F(99),
         Int2F(97), Rat(8, 10))

\* a bar on which no entry rule holds, closing at price
QuietBar(price) ==
    Snap(Int2F(50), Int2F(50), Int2F(50), price, price, FAdd(price, Int2F(2)),
         FSub(price, Int2F(2)), Rat(3, 10))

\* the bars of the engine runs: ScenarioC also serves as a quiet bar closing at 95
EngineBars ==
    {ScenarioC, LongBar, ShortBar, QuietBar(Rat(979, 10)), QuietBar(Int2F(103))}

MaxBars == 4

\* one iteration of the for loop of run_backtest (lines 64-82), the indicator
\* calls of lines 68-71 having returned snaps[i + 1]
EngineStep ==
    /\ status = "running"
    /\ i < Len(snaps) - 1
    /\ Dispatch(snaps[i + 1], i)
    /\ i' = i + 1
    /\ UNCHANGED <<df, snaps, config, status, result, run, first>>

\* line 84, once range(len(df) - 1) is exhausted
EngineReturn ==
    /\ status = "running"
    /\ i >= Len(snaps) - 1
    /\ status' = "returned"
    /\ result' = calculate_metrics(trades_history, balance)
    /\ first' = IF run = 1
                THEN [ledger |-> trades_history,
                      report |-> calculate_metrics(trades_history, balance)]
                ELSE first
    /\ UNCHANGED <<df, snaps, config, balance, positions, trades_history, i,
                   consulted, run>>

\* the backtest is run again on the same input: Backtester(df).run_backtest(config)
EngineRerun ==
    /\ status = "returned"
    /\ run = 1
    /\ LET new == Backtester_init([balance |-> balance, positions |-> positions,
                                   trades_history |-> trades_history], InitialBalance)
       IN  /\ balance' = new.balance
           /\ positions' = new.positions
           /\ trades_history' = new.trades_history
    /\ run' = 2
    /\ i' = 0
    /\ status' = "running"
    /\ consulted' = <<>>
    /\ result' = NoResult
    /\ UNCHANGED <<df, snaps, config, first>>

InitEngine ==
    /\ df = <<>>
    /\ snaps \in SeqsUpTo(EngineBars, MaxBars)
    /\ config \in Configs
    /\ LET new == Backtester_init(NoBacktester, InitialBalance)
       IN  /\ balance = new.balance
           /\ positions = new.positions
           /\ trades_history = new.trades_history
    /\ i = 0
    /\ status = "running"
    /\ result = NoResult
    /\ consulted = <<>>
    /\ run = 1
    /\ first = [ledger |-> <<>>, report |-> NoResult]

NextEngine == EngineStep \/ EngineReturn \/ EngineRerun

SpecEngine == InitEngine /\ [][NextEngine]_vars

(***************************************************************************)
(* Claims on the position state machine (SpecEngine)                       *)
(***************************************************************************)
Range(s) == {s[j] : j \in 1..Len(s)}

BarProcessed == i' = i + 1

\* C1: at most one position is open in every state; on a bar where a position
\* is open the entry signal is not consulted and no position is opened, and on
\* a bar where none is open the exit signal is not consulted and no trade closed.
C1_OnePositionExclusiveSignals ==
    /\ [](Len(positions) <= 1)
    /\ [][BarProcessed =>
            /\ positions # <<>> =>
                 /\ "entry" \notin Range(consulted')
                 /\ Len(positions') <= Len(positions)
            /\ positions = <<>> =>
                 /\ "exit" \notin Range(consulted')
                 /\ trades_history' = trades_history]_vars

\* a bar was processed with a position open: only the exit signal was consulted
\* and the position stayed open
C1_Witness ==
    /\ Len(positions) = 1
    /\ consulted # <<>>
    /\ consulted[1] = "exit"
    /\ i > positions[1].entry_time + 1

\* C3: when the engine is Flat at a bar with the indicators of Scenario C and
\* min_trend_strength = 0.5, it opens a long position there with entry price 95.
C3_ScenarioCOpensLong ==
    [][(/\ BarProcessed
        /\ positions = <<>>
        /\ snaps[i + 1] = ScenarioC
        /\ config.min_trend_strength = Rat(5, 10))
       => (/\ Len(positions') = 1
           /\ positions'[1].side = "long"
           /\ positions'[1].entry_price = Int2F(95))]_vars

\* the close has moved against the entry price by more than the fraction sl
AdverseMoveExceeds(p, price, sl) ==
    IF p.side = "long"
    THEN FGt(FDiv(FSub(p.entry_price, price), p.entry_price), sl)
    ELSE FGt(FDiv(FSub(price, p.entry_price), p.entry_price), sl)

\* C4: when a position is open and the bar's close has moved against the entry
\* price by more than stop_loss, the position is closed on that bar: the engine
\* is Flat again and exactly one Trade, with negative profit, is appended; the
\* stop-loss test is evaluated first, the take-profit test only if it fails.
C4_StopLossClosesOnSameBar ==
    [][(BarProcessed /\ positions # <<>>) =>
         /\ Len(consulted') >= 2
         /\ consulted'[1] = "exit"
         /\ consulted'[2] = "stop_loss"
         /\ AdverseMoveExceeds(Last(positions), snaps[i + 1].price, config.stop_loss) =>
              /\ consulted' = <<"exit", "stop_loss">>
              /\ positions' = <<>>
              /\ Len(trades_history') = Len(trades_history) + 1
              /\ SubSeq(trades_history', 1, Len(trades_history)) = trades_history
              /\ FLt(Last(trades_history').profit, Int2F(0))]_vars

\* Scenario D of the spec: long at 100, stop 0.02, the next bar closes at 97.9
C4_Witness ==
    /\ positions = <<>>
    /\ consulted = <<"exit", "stop_loss">>
    /\ config.stop_loss = Rat(2, 100)
    /\ trades_history # <<>>
    /\ Last(trades_history).side = "long"
    /\ Last(trades_history).entry_price = Int2F(100)
    /\ Last(trades_history).exit_price = Rat(979, 10)
    /\ FLt(Last(trades_history).profit, Int2F(0))

Bar(high, low, close) == [high |-> Int2F(high), low |-> Int2F(low), close |-> Int2F(close)]

Column(data, col) == [j \in 1..Len(data) |-> data[j][col]]

\* the window of s.rolling(window=w) that ends at j
Window(s, j, w) == SubSeq(s, IF j - w + 1 < 1 THEN 1 ELSE j - w + 1, j)

NonNaN(s) == {s[j] : j \in {q \in 1..Len(s) : s[q].t # "nan"}}

Valid(s) == Cardinality({q \in 1..Len(s) : s[q].t # "nan"})

SetMax(S) == IF S = {} THEN NaN ELSE CHOOSE x \in S : \A y \in S : FLe(y, x)

SetMaxInt(S) == CHOOSE x \in S : \A y \in S : y <= x

SetMin(S) == IF S = {} THEN NaN ELSE CHOOSE x \in S : \A y \in S : FLe(x, y)

\* max, min, mean and sample variance (ddof = 1) of a window that needs mp valid
\* rows: NaN rows are skipped, and the result is NaN with fewer than mp of them
WinMax(win, mp) == IF Valid(win) < mp THEN NaN ELSE SetMax(NonNaN(win))

WinMin(win, mp) == IF Valid(win) < mp THEN NaN ELSE SetMin(NonNaN(win))

WinMean(win, mp) == IF Len(win) < mp \/ Valid(win) < mp THEN NaN ELSE Mean(win)

SquaredDev(win, mu) == [q \in 1..Len(win) |-> RatSq(FSub(win[q], mu))]

WinVar(win, mp) ==
    IF Len(win) < mp \/ Valid(win) < mp THEN NaN
    ELSE FDiv(FSum(SquaredDev(win, Mean(win))), Int2F(mp - 1))

\* s.rolling(window=w, min_periods=mp).max() / .min() at row j
RollingMax(s, j, w, mp) == WinMax(Window(s, j, w), mp)

RollingMin(s, j, w, mp) == WinMin(Window(s, j, w), mp)

\* s.rolling(window=w).mean() and the square of s.rolling(window=w).std() at row j
RollingMean(s, j, w) == WinMean(Window(s, j, w), w)

RollingVar(s, j, w) == WinVar(Window(s, j, w), w)

KdjN == 9

KdjStdWindow == 5

Seed == 50

\* line 16: a zero high-low range divides by zero (0/0 is NaN), unguarded
RsvOf(close, lowest_low, highest_high) ==
    FMul(FDiv(FSub(close, lowest_low), FSub(highest_high, lowest_low)), Int2F(100))

\* lines 14-16 at row j
Rsv(data, j) ==
    RsvOf(data[j].close, RollingMin(Column(data, "low"), j, KdjN, 1),
          RollingMax(Column(data, "high"), j, KdjN, 1))

\* lines 24 and 25
KStep(prev_k, rsv) == FAdd(FMul(Rat(2, 3), prev_k), FMul(Rat(1, 3), rsv))

DStep(prev_d, k) == FAdd(FMul(Rat(2, 3), prev_d), FMul(Rat(1, 3), k))

KDAppend(prev, k) == Append(prev, [k |-> k, d |-> DStep(Last(prev).d, k)])

KDExtend(prev, rsv) == KDAppend(prev, KStep(Last(prev).k, rsv))

\* lines 18-25: the K and D series up to row j, seeded at 50
RECURSIVE KDSeries(_, _)
KDSeries(data, j) ==
    IF j = 1 THEN <<[k |-> Int2F(Seed), d |-> Int2F(Seed)]>>
    ELSE KDExtend(KDSeries(data, j - 1), Rsv(data, j))

FAbs(a) == IF a.t = "num" THEN Rat(Abs(a.n), a.d) ELSE IF a.t = "inf" THEN Inf(1) ELSE NaN

\* line 27
JSeries(kd) ==
    [j \in 1..Len(kd) |-> FSub(FMul(Int2F(3), kd[j].k), FMul(Int2F(2), kd[j].d))]

\* line 28, last row: abs(K - D) / (0.1 + J.rolling(5).std())
TrendStrength(k, d, J) ==
    Surd(FAbs(FSub(k, d)), Zero, Rat(1, 10), One, RollingVar(J, Len(J), KdjStdWindow))

KDJResult(kd) ==
    [k |-> Last(kd).k, d |-> Last(kd).d,
     trend_strength |-> TrendStrength(Last(kd).k, Last(kd).d, JSeries(kd))]

\* data has at least one row
calculate_KDJ(data) == KDJResult(KDSeries(data, Len(data)))

RsiPeriod == 14

\* lines 35-37: delta = close.diff(); where(cond, 0) puts 0 where cond is false,
\* also on the NaN of the first row
Delta(data, j) == IF j > 1 THEN FSub(data[j].close, data[j - 1].close) ELSE NaN

GainOf(delta) == IF FGt(delta, Zero) THEN delta ELSE Zero

LossOf(delta) == IF FLt(delta, Zero) THEN FNeg(delta) ELSE Zero

Gains(data) == [j \in 1..Len(data) |-> GainOf(Delta(data, j))]

Losses(data) == [j \in 1..Len(data) |-> LossOf(Delta(data, j))]

\* lines 38-39: rs = gain / loss; rsi = 100 - (100 / (1 + rs))
RsiOf(gain, loss) == FSub(Int2F(100), FDiv(Int2F(100), FAdd(One, FDiv(gain, loss))))

calculate_RSI(data) ==
    RsiOf(RollingMean(Gains(data), Len(data), RsiPeriod),
          RollingMean(Losses(data), Len(data), RsiPeriod))

BbPeriod == 20

BbStd == 2

\* bands with the two signs exchanged
Bands_swapped(ma, var) ==
    [ma |-> ma,
     upper_bb |-> Surd(ma, Int2F(-BbStd), One, Zero, var),
     lower_bb |-> Surd(ma, Int2F(BbStd), One, Zero, var)]

\* lines 45-49: ma +/- std_dev * std, with std_dev the root of var
Bands(ma, var) ==
    [ma |-> ma,
     upper_bb |-> Surd(ma, Int2F(BbStd), One, Zero, var),
     lower_bb |-> Surd(ma, Int2F(-BbStd), One, Zero, var)]

calculate_bollinger_bands(data) ==
    Bands(RollingMean(Column(data, "close"), Len(data), BbPeriod),
          RollingVar(Column(data, "close"), Len(data), BbPeriod))

SrLookback == 20

RollingHighs(data) ==
    [j \in 1..Len(data) |-> RollingMax(Column(data, "high"), j, SrLookback, SrLookback)]

RollingLows(data) ==
    [j \in 1..Len(data) |-> RollingMin(Column(data, "low"), j, SrLookback, SrLookback)]

CountOf(s, x) == Cardinality({j \in 1..Len(s) : s[j] = x})

\* lines 66-67: value_counts() drops NaN, so while no window of lookback rows is
\* complete it is empty and .iloc[-1] raises IndexError; otherwise the results
\* are the counts of the largest rolling high and of the smallest rolling low
LevelCounts(highs, lows) ==
    IF NonNaN(highs) = {} THEN Raise("IndexError")
    ELSE Return([support |-> CountOf(lows, SetMin(NonNaN(lows))),
                 resistance |-> CountOf(highs, SetMax(NonNaN(highs)))])

calculate_support_resistance(data) == LevelCounts(RollingHighs(data), RollingLows(data))

(***************************************************************************)
(* Input series                                                            *)
(***************************************************************************)
FlatBar == Bar(100, 100, 100)

DojiBar == Bar(101, 99, 100)

UpBar == Bar(102, 100, 102)

DownBar == Bar(100, 97, 98)

TailBars == {FlatBar, DojiBar, UpBar, DownBar}

MaxTail == 2

Repeat(b, n) == [j \in 1..n |-> b]

\* a run of bars that all close at 100 (none, one short of the Bollinger window,
\* or the 30 bars of Scenario A), followed by a short free tail
Series ==
    {Repeat(b, n) \o tail : b \in {FlatBar, DojiBar}, n \in {0, BbPeriod - 1, 30},
                            tail \in SeqsUpTo(TailBars, MaxTail)}

(***************************************************************************)
(* run_backtest as the code runs it (Spec)                                 *)
(***************************************************************************)
\* lines 73-82 once the indicator calls of lines 68-71 are done: b holds the
\* values of lines 68-70, sr what calculate_support_resistance returned or raised
AfterIndicators(b, sr) ==
    /\ snaps' = Append(snaps, b)
    /\ IF sr.kind = "raised"
       THEN /\ status' = "raised"
            /\ result' = sr
            /\ UNCHANGED <<positions, trades_history, balance, consulted, i>>
       ELSE /\ Dispatch(b, i)
            /\ i' = i + 1
            /\ UNCHANGED <<status, result>>

\* lines 68-70 and the close of line 75
Indicators(kdj, rsi, bb, price) ==
    Snap(kdj.k, kdj.d, rsi, price, bb.ma, bb.upper_bb, bb.lower_bb, kdj.trend_strength)

IndicatorsOf(current_data) ==
    Indicators(calculate_KDJ(current_data), calculate_RSI(current_data),
               calculate_bollinger_bands(current_data), Last(current_data).close)

\* one iteration of the loop of run_backtest, lines 64-82, on current_data =
\* df.iloc[:i+1]
RunBacktestStep ==
    /\ status = "running"
    /\ i < Len(df) - 1
    /\ AfterIndicators(IndicatorsOf(SubSeq(df, 1, i + 1)),
                       calculate_support_resistance(SubSeq(df, 1, i + 1)))
    /\ UNCHANGED <<df, config, run, first>>

\* line 84
RunBacktestReturn ==
    /\ status = "running"
    /\ i >= Len(df) - 1
    /\ status' = "returned"
    /\ result' = calculate_metrics(trades_history, balance)
    /\ UNCHANGED <<df, snaps, config, balance, positions, trades_history, i,
                   consulted, run, first>>

Init ==
    /\ df \in Series
    /\ snaps = <<>>
    /\ config \in Configs
    /\ LET new == Backtester_init(NoBacktester, InitialBalance)
       IN  /\ balance = new.balance
           /\ positions = new.positions
           /\ trades_history = new.trades_history
    /\ i = 0
    /\ status = "running"
    /\ result = NoResult
    /\ consulted = <<>>
    /\ run = 1
    /\ first = [ledger |-> <<>>, report |-> NoResult]

Next == RunBacktestStep \/ RunBacktestReturn

Spec == Init /\ [][Next]_vars

(***************************************************************************)
(* The indicator functions called on their own (SpecInd)                   *)
(***************************************************************************)
Call(name, value) ==
    /\ status = "input"
    /\ status' = "called"
    /\ consulted' = <<name>>
    /\ result' = value
    /\ UNCHANGED <<df, snaps, config, balance, positions, trades_history, i, run, first>>

CallKDJ == Call("calculate_KDJ", Return(calculate_KDJ(df)))

CallRSI == Call("calculate_RSI", Return(calculate_RSI(df)))

CallBollinger == Call("calculate_bollinger_bands", Return(calculate_bollinger_bands(df)))

CallSupportResistance ==
    Call("calculate_support_resistance", calculate_support_resistance(df))

InitInd ==
    /\ df \in {s \in Series : s # <<>>}
    /\ snaps = <<>>
    /\ config = DefaultConfig
    /\ balance = Int2F(InitialBalance)
    /\ positions = <<>>
    /\ trades_history = <<>>
    /\ i = 0
    /\ status = "input"
    /\ result = NoResult
    /\ consulted = <<>>
    /\ run = 1
    /\ first = [ledger |-> <<>>, report |-> NoResult]

NextInd == CallKDJ \/ CallRSI \/ CallBollinger \/ CallSupportResistance

SpecInd == InitInd /\ [][NextInd]_vars

(***************************************************************************)
(* check_entry_signal called on its own (SpecEntry)                        *)
(***************************************************************************)
EntryInputs ==
    {Snap(k, d, rsi, Int2F(100), ma, upper_bb, lower_bb, trend_strength) :
        k \in {Int2F(40), Int2F(60)}, d \in {Int2F(40), Int2F(60)},
        rsi \in {Int2F(25), Int2F(30), Int2F(70), Int2F(75), NaN},
        ma \in {Int2F(99), Int2F(100), Int2F(101), NaN},
        upper_bb \in {Int2F(99), Int2F(102), NaN},
        lower_bb \in {Int2F(98), Int2F(101), NaN},
        trend_strength \in {Rat(3, 10), Rat(5, 10), Rat(8, 10), NaN}}

CallCheckEntry ==
    Call("check_entry_signal",
         Return(check_entry_signal(snaps[1].k, snaps[1].d, snaps[1].rsi, snaps[1].price,
                                   snaps[1].ma, snaps[1].upper_bb, snaps[1].lower_bb,
                                   snaps[1].trend_strength, config)))

InitEntry ==
    /\ df = <<>>
    /\ snaps \in {<<b>> : b \in EntryInputs}
    /\ config = DefaultConfig
    /\ balance = Int2F(InitialBalance)
    /\ positions = <<>>
    /\ trades_history = <<>>
    /\ i = 0
    /\ status = "input"
    /\ result = NoResult
    /\ consulted = <<>>
    /\ run = 1
    /\ first = [ledger |-> <<>>, report |-> NoResult]

NextEntry == CallCheckEntry

SpecEntry == InitEntry /\ [][NextEntry]_vars

(***************************************************************************)
(* The metric functions called on a given ledger (SpecMetrics)             *)
(***************************************************************************)
BalanceLevels == {Int2F(9800), Int2F(10000), Int2F(10200), Int2F(10500)}

MaxTrades == 4

\* the ledger of long trades of size 1 whose balance_after values are bs, from
\* the initial balance on
LedgerOf(bs) ==
    [j \in 1..Len(bs) |->
        [entry_price |-> Int2F(100), entry_time |-> 2 * j - 2,
         exit_price |-> FAdd(Int2F(100),
                             FSub(bs[j], IF j = 1 THEN Int2F(InitialBalance) ELSE bs[j - 1])),
         exit_time |-> 2 * j - 1, side |-> "long",
         profit |-> FSub(bs[j], IF j = 1 THEN Int2F(InitialBalance) ELSE bs[j - 1]),
         balance_before |-> IF j = 1 THEN Int2F(InitialBalance) ELSE bs[j - 1],
         balance_after |-> bs[j]]]

CallMaxDrawdown == Call("calculate_max_drawdown", calculate_max_drawdown(trades_history))

CallSharpeRatio == Call("calculate_sharpe_ratio", calculate_sharpe_ratio(trades_history))

CallMetrics == Call("calculate_metrics", calculate_metrics(trades_history, balance))

CallTradeMetrics == Call("calculate_trade_metrics", calculate_trade_metrics(trades_history))

InitMetrics ==
    /\ df = <<>>
    /\ snaps = <<>>
    /\ config = DefaultConfig
    /\ trades_history \in {LedgerOf(bs) : bs \in SeqsUpTo(BalanceLevels, MaxTrades)}
    /\ balance = IF trades_history = <<>> THEN Int2F(InitialBalance)
                 ELSE Last(trades_history).balance_after
    /\ positions = <<>>
    /\ i = 0
    /\ status = "input"
    /\ result = NoResult
    /\ consulted = <<>>
    /\ run = 1
    /\ first = [ledger |-> <<>>, report |-> NoResult]

NextMetrics == CallMaxDrawdown \/ CallSharpeRatio \/ CallMetrics \/ CallTradeMetrics

SpecMetrics == InitMetrics /\ [][NextMetrics]_vars

(***************************************************************************)
(* Claims about check_entry_signal (SpecEntry)                             *)
(***************************************************************************)
\* x > y on floats, false when either is NaN, written from the comparison of
\* two fractions
Gt(x, y) == x.t = "num" /\ y.t = "num" /\ x.n * y.d > y.n * x.d

LongFive(b, cfg) ==
    /\ Gt(b.k, b.d)
    /\ Gt(Int2F(30), b.rsi)
    /\ Gt(b.price, b.ma)
    /\ Gt(b.trend_strength, cfg.min_trend_strength)
    /\ Gt(b.lower_bb, b.price)

ShortFive(b, cfg) ==
    /\ Gt(b.d, b.k)
    /\ Gt(b.rsi, Int2F(70))
    /\ Gt(b.ma, b.price)
    /\ Gt(b.trend_strength, cfg.min_trend_strength)
    /\ Gt(b.price, b.upper_bb)

Called(name) == status = "called" /\ consulted = <<name>>

\* C2: check_entry_signal returns true exactly when all five long conjuncts
\* hold (K > D, RSI < 30, price > MA, trend strength > minimum, price < lower
\* band) or all five short conjuncts hold (K < D, RSI > 70, price < MA, trend
\* strength > minimum, price > upper band), and false for every other input.
C2_EntryIffAllFive ==
    Called("check_entry_signal") =>
        /\ result.kind = "returned"
        /\ result.value = (LongFive(snaps[1], config) \/ ShortFive(snaps[1], config))

\* the signal fires on an input that meets all five short conjuncts
C2_Witness ==
    /\ Called("check_entry_signal")
    /\ result.value = TRUE
    /\ ShortFive(snaps[1], config)

(***************************************************************************)
(* Claims about the metric functions (SpecMetrics)                         *)
(***************************************************************************)
Balances == [j \in 1..Len(trades_history) |-> trades_history[j].balance_after]

RunningPeak(bh, j) == SetMax({bh[q] : q \in 1..j})

DrawdownAt(bh, j) == FDiv(FSub(RunningPeak(bh, j), bh[j]), RunningPeak(bh, j))

NonDecreasing(bh) == \A j \in 1..(Len(bh) - 1) : FLe(bh[j], bh[j + 1])

ScenarioB == <<Int2F(10000), Int2F(10500), Int2F(9800), Int2F(10200)>>

\* C7: for every non-empty sequence of positive post-trade balances,
\* calculate_max_drawdown returns the maximum over the sequence of
\* (running peak - balance) / running peak; the result is >= 0, is 0 when the
\* sequence is non-decreasing, and for [10000, 10500, 9800, 10200] equals
\* (10500 - 9800) / 10500.
C7_MaxDrawdownIsLargestPeakToTrough ==
    (Called("calculate_max_drawdown") /\ trades_history # <<>>) =>
        /\ result.kind = "returned"
        /\ result.value = SetMax({DrawdownAt(Balances, j) : j \in 1..Len(Balances)})
        /\ FGe(result.value, Zero)
        /\ NonDecreasing(Balances) => result.value = Zero
        /\ Balances = ScenarioB => result.value = Rat(10500 - 9800, 10500)

C7_Witness ==
    /\ Called("calculate_max_drawdown")
    /\ Balances = ScenarioB
    /\ result = Return(Rat(1, 15))

ZeroOrUndefined(v) == v = 0 \/ v = Zero \/ v = NaN

\* C8: on an empty trade ledger no metric operation raises, and the metrics
\* calculation returns a report whose fields are all zero or undefined, with
\* a win rate of 0.
C8_EmptyLedgerZeroReport ==
    (status = "called" /\ trades_history = <<>>) =>
        /\ result.kind = "returned"
        /\ Called("calculate_metrics") =>
              /\ "win_rate" \in DOMAIN result.value
              /\ result.value.win_rate = Zero
              /\ \A key \in DOMAIN result.value \ {"final_balance"} :
                     ZeroOrUndefined(result.value[key])

(***************************************************************************)
(* Claims about the whole run (Spec)                                       *)
(***************************************************************************)
BarsToProcess == IF Len(df) = 0 THEN 0 ELSE Len(df) - 1

\* C5: run_backtest processes the bars in index order, one step per bar, for
\* every bar except the final one, and then terminates and returns the
\* metrics, for every finite series.
C5_EveryBarButLastThenMetrics ==
    /\ status \in {"running", "returned"}
    /\ status = "returned" => (i = BarsToProcess /\ result.kind = "returned")

(***************************************************************************)
(* Claims about the indicator functions (SpecInd)                          *)
(***************************************************************************)
\* C9: for a flat series of 30 bars whose closes are all 100 the RSI is
\* reported as 100 and no error is raised.
C9_FlatSeriesRsiIs100 ==
    (df = Repeat(FlatBar, 30) /\ status = "called") =>
        /\ result.kind = "returned"
        /\ Called("calculate_RSI") => result.value = Int2F(100)

InRange(x) == x.t = "num" /\ x.n >= 0 /\ x.n <= 100 * x.d

\* C10: for every valid price series the K and D values of calculate_KDJ lie
\* in [0, 100], also when the high-low window is degenerate, and the RSI of
\* calculate_RSI lies in [0, 100] once its window is full.
C10_OscillatorsStayInRange ==
    /\ Called("calculate_KDJ") => (InRange(result.value.k) /\ InRange(result.value.d))
    /\ (Called("calculate_RSI") /\ Len(df) >= RsiPeriod) => InRange(result.value)

(***************************************************************************)
(* Price data integrity: utils.validate_price_data and run_backtest on     *)
(* series that may be invalid (SpecRaw)                                    *)
(***************************************************************************)
MaxStamp == 2

MaxRows == 2

\* a row of the six required columns
RawBar(timestamp, open, high, low, close) ==
    [timestamp |-> timestamp, open |-> open, high |-> Int2F(high), low |-> Int2F(low),
     close |-> Int2F(close), volume |-> Int2F(1)]

\* sound rows, rows with high < low, and rows whose open is null
RawBars ==
    {RawBar(ts, Int2F(100), 101, 99, 100) : ts \in 1..MaxStamp}
        \cup {RawBar(ts, Int2F(100), 99, 101, 100) : ts \in 1..MaxStamp}
        \cup {RawBar(ts, NaN, 101, 99, 100) : ts \in 1..MaxStamp}

\* the frame without its 'open' column
DropOpen(data) ==
    [j \in 1..Len(data) |->
        [col \in DOMAIN data[j] \ {"open"} |-> data[j][col]]]

RawSeries ==
    SeqsUpTo(RawBars, MaxRows)
        \cup {DropOpen(data) : data \in {x \in SeqsUpTo(RawBars, MaxRows) : x # <<>>}}

required_columns == {"timestamp", "open", "high", "low", "close", "volume"}

\* df.columns: the columns every row carries
Columns(data) == IF data = <<>> THEN required_columns ELSE DOMAIN data[1]

IsNull(v) == v = NaN

\* lines 81-85 on one row
price_valid(row) ==
    /\ FGe(row.high, row.low)
    /\ FGe(row.high, row.close)
    /\ FGe(row.high, row.open)
    /\ FLe(row.low, row.close)
    /\ FLe(row.low, row.open)

\* lines 72-87; the timestamps, integers here and never null, are not compared
\* with each other
validate_price_data(data) ==
    IF ~(required_columns \subseteq Columns(data)) THEN FALSE
    ELSE IF \E j \in 1..Len(data) :
                \E col \in required_columns \ {"timestamp"} : IsNull(data[j][col])
         THEN FALSE
         ELSE \A j \in 1..Len(data) : price_valid(data[j])

CallValidatePriceData == Call("validate_price_data", Return(validate_price_data(df)))

\* run_backtest is entered with df as it was handed to Backtester(df): no line
\* of __init__ or of run_backtest calls validate_price_data
InitRaw ==
    /\ df \in RawSeries
    /\ snaps = <<>>
    /\ config = DefaultConfig
    /\ LET new == Backtester_init(NoBacktester, InitialBalance)
       IN  /\ balance = new.balance
           /\ positions = new.positions
           /\ trades_history = new.trades_history
    /\ i = 0
    /\ status \in {"running", "input"}
    /\ result = NoResult
    /\ consulted = <<>>
    /\ run = 1
    /\ first = [ledger |-> <<>>, report |-> NoResult]

NextRaw == RunBacktestStep \/ RunBacktestReturn \/ CallValidatePriceData

SpecRaw == InitRaw /\ [][NextRaw]_vars

\* what the data model calls an invalid series
NonMonotonic(data) == \E j \in 1..(Len(data) - 1) : data[j + 1].timestamp <= data[j].timestamp

HighBelowLow(data) == \E j \in 1..Len(data) : FLt(data[j].high, data[j].low)

MissingField(data) ==
    \E j \in 1..Len(data) :
        \E col \in {"open", "high", "low", "close"} :
            col \notin DOMAIN data[j] \/ data[j][col] = NaN

InvalidSeries(data) == NonMonotonic(data) \/ HighBelowLow(data) \/ MissingField(data)

\* C11: a series with non-monotonic timestamps, a bar with high < low or a
\* missing OHLC field is rejected before any indicator is computed: the run
\* computes no indicator and produces no trade, and the validation refuses it.
C11_InvalidSeriesRejected ==
    InvalidSeries(df) =>
        /\ snaps = <<>>
        /\ trades_history = <<>>
        /\ Called("validate_price_data") => result = Return(FALSE)

(***************************************************************************)
(* Frame of the balance and the ledger (SpecEngine)                        *)
(***************************************************************************)
\* the bar being processed closes the open position
ClosingBar == BarProcessed /\ positions # <<>> /\ positions' = <<>>

SignedDelta(p, price) ==
    IF p.side = "long" THEN FSub(price, p.entry_price) ELSE FSub(p.entry_price, price)

EntrySignalOf(b, cfg) ==
    check_entry_signal(b.k, b.d, b.rsi, b.price, b.ma, b.upper_bb, b.lower_bb,
                       b.trend_strength, cfg)

\* lines 68-70 and the call of lines 75-76 on current_data = df
EvaluateEntry(b) ==
    /\ status = "input"
    /\ status' = "called"
    /\ snaps' = <<b>>
    /\ consulted' = <<"check_entry_signal">>
    /\ result' = Return(EntrySignalOf(b, config))
    /\ UNCHANGED <<df, config, balance, positions, trades_history, i, run, first>>

EvaluateEntryOnSeries == EvaluateEntry(IndicatorsOf(df))

InitSignal ==
    /\ df \in {s \in Series : s # <<>>}
    /\ snaps = <<>>
    /\ config \in Configs
    /\ LET new == Backtester_init(NoBacktester, InitialBalance)
       IN  /\ balance = new.balance
           /\ positions = new.positions
           /\ trades_history = new.trades_history
    /\ i = 0
    /\ status \in {"input", "running"}
    /\ result = NoResult
    /\ consulted = <<>>
    /\ run = 1
    /\ first = [ledger |-> <<>>, report |-> NoResult]

\* the entry decision on the last bar of df, or the whole run on df
NextSignal == EvaluateEntryOnSeries \/ RunBacktestStep \/ RunBacktestReturn

SpecSignal == InitSignal /\ [][NextSignal]_vars

\* the largest window an input of the entry decision needs
LargestWindow == SetMaxInt({RsiPeriod, BbPeriod, KdjStdWindow})

AnyUndefined(b) == \E f \in DOMAIN b : b[f] = NaN

\* C13: whenever an indicator input of the entry decision is undefined for lack
\* of history (fewer bars than the RSI, Bollinger or trend-strength window),
\* check_entry_signal yields no signal; every prefix shorter than the largest
\* window has such an input, so no bar with such a prefix opens a position.
C13_UndefinedInputsGiveNoSignal ==
    Called("check_entry_signal") =>
        /\ Len(df) < LargestWindow => AnyUndefined(snaps[1])
        /\ AnyUndefined(snaps[1]) => result = Return(FALSE)

\* two bars of history: K is above D, the RSI, the bands and the trend strength
\* are undefined, and no signal is given
C13_Witness ==
    /\ Called("check_entry_signal")
    /\ Len(df) = 2
    /\ snaps # <<>>
    /\ Gt(snaps[1].k, snaps[1].d)
    /\ snaps[1].rsi = NaN
    /\ snaps[1].lower_bb = NaN
    /\ snaps[1].trend_strength = NaN
    /\ result = Return(FALSE)

BandsDefined(b) == b.ma # NaN /\ b.upper_bb # NaN /\ b.lower_bb # NaN

OrderedBands(b) == FLe(b.lower_bb, b.ma) /\ FLe(b.ma, b.upper_bb)

====
